---- MODULE Spec2Model ----
(***************************************************************************)
(* Model of the CDbw cluster-validity engine of muster (cdbw.cpp).         *)
(*                                                                         *)
(* State: the engine's fields after construction (p_, points_, clusters_,  *)
(* r_, RCRs_, the four score fields, intra_cluster_density_change_), the   *)
(* value returned by the last compute() call, and history variables that   *)
(* record what each compute() call did.                                    *)
(*                                                                         *)
(* Numbers.  Object coordinates are integers on a small lattice, stored in *)
(* units of 1/Unit, where Unit is a multiple of 10 and of every possible   *)
(* cluster size: centroids, midpoints and shrunk representatives are then  *)
(* exact lattice points.  A double is a record [k, v]: k = "fin" with v    *)
(* the value in units of 1/Unit (fixed point, truncating), k = "inf" with  *)
(* v the sign, or k = "nan".  Comparisons of Euclidean distances are made  *)
(* on the exact squared distances (sqrt is strictly monotone), so ties are *)
(* exactly the ties of real arithmetic.  k = "unspecified" is a finite value >= 0  *)
(* the model does not determine: the count of a range query whose radius   *)
(* is NaN depends on the shape of the kd-tree.                             *)
(***************************************************************************)
EXTENDS Integers, Sequences, FiniteSets, TLC

\* ---------------------------------------------------------------- bounds
NumObjects == 4
MaxX == 2
MaxY == 0
MaxClusters == 2
MaxR == 3
MaxCalls == 2

Objects == 0 .. (NumObjects - 1)

RECURSIVE Gcd(_, _)
Gcd(a, b) == IF b = 0 THEN a ELSE Gcd(b, a % b)

RECURSIVE LcmUpTo(_)
LcmUpTo(n) == IF n <= 1 THEN 1 ELSE LET l == LcmUpTo(n - 1) IN (l * n) \div Gcd(l, n)

\* one coordinate unit is Unit lattice steps; also the fixed-point scale of a double
Unit == 10 * LcmUpTo(NumObjects)

\* ------------------------------------------------------------- doubles
Fin(n) == [k |-> "fin", v |-> n]
Inf(s) == [k |-> "inf", v |-> s]
NaN == [k |-> "nan", v |-> 0]
Unspecified == [k |-> "unspecified", v |-> 0]
Zero == Fin(0)

\* std::numeric_limits<double>::max(): the largest finite value of the model
MaxDouble == 1000000000
DblMax == Fin(MaxDouble)
\* std::numeric_limits<double>::min() is the smallest POSITIVE double (2.2e-308).
\* Every value of the model is 0 or far above it, x > min() is x > 0, and adding
\* it to a value changes nothing at double precision: it is modelled by 0.
DblMin == Fin(0)

IsNaN(a) == a.k = "nan"
IsFinite(a) == a.k = "fin"

Sign(n) == IF n < 0 THEN -1 ELSE 1
AbsInt(n) == IF n < 0 THEN -n ELSE n

\* a finite result, overflowing to infinity beyond the largest finite value
Round(n) == IF AbsInt(n) > MaxDouble THEN Inf(Sign(n)) ELSE Fin(n)

\* size_t -> double
FromInt(n) == Fin(n * Unit)

DNeg(a) == IF a.k = "nan" THEN NaN ELSE [a EXCEPT !.v = -a.v]

DAdd(a, b) ==
  IF a.k = "fin" /\ b.k = "fin" THEN Round(a.v + b.v)
  ELSE IF a.k = "nan" \/ b.k = "nan" THEN NaN
  ELSE IF a.k = "unspecified" \/ b.k = "unspecified" THEN Unspecified
  ELSE IF a.k = "inf" /\ b.k = "inf" THEN (IF a.v = b.v THEN a ELSE NaN)
  ELSE IF a.k = "inf" THEN a
  ELSE IF b.k = "inf" THEN b
  ELSE Round(a.v + b.v)

DSub(a, b) == DAdd(a, DNeg(b))

DMul(a, b) ==
  IF a.k = "fin" /\ b.k = "fin" THEN Round((a.v * b.v) \div Unit)
  ELSE IF a.k = "nan" \/ b.k = "nan" THEN NaN
  ELSE IF a.k = "unspecified" \/ b.k = "unspecified" THEN Unspecified
  ELSE IF a.k = "inf" \/ b.k = "inf"
       THEN (IF a.v = 0 \/ b.v = 0 THEN NaN ELSE Inf(Sign(a.v) * Sign(b.v)))
  ELSE Round((a.v * b.v) \div Unit)

DDiv(a, b) ==
  IF a.k = "fin" /\ b.k = "fin" /\ b.v # 0 THEN Round((a.v * Unit) \div b.v)
  ELSE IF a.k = "nan" \/ b.k = "nan" THEN NaN
  ELSE IF a.k = "unspecified" \/ b.k = "unspecified" THEN Unspecified
  ELSE IF a.k = "inf" THEN (IF b.k = "inf" THEN NaN ELSE Inf(a.v * Sign(b.v)))
  ELSE IF b.k = "inf" THEN Zero
  ELSE IF b.v = 0 THEN (IF a.v = 0 THEN NaN ELSE Inf(Sign(a.v)))
  ELSE Round((a.v * Unit) \div b.v)

RECURSIVE ISqrt(_)
ISqrt(n) ==
  IF n < 2 THEN n
  ELSE LET s == 2 * ISqrt(n \div 4)
       IN  IF (s + 1) * (s + 1) <= n THEN s + 1 ELSE s

DSqrt(a) ==
  IF a.k = "nan" THEN NaN
  ELSE IF a.k = "inf" THEN (IF a.v > 0 THEN a ELSE NaN)
  ELSE IF a.v < 0 THEN NaN
  ELSE Fin(ISqrt(a.v * Unit))

DAbs(a) == IF a.k = "nan" THEN NaN ELSE [a EXCEPT !.v = AbsInt(a.v)]

\* a < b on doubles: false as soon as one side is NaN
DLess(a, b) ==
  IF a.k = "nan" \/ b.k = "nan" THEN FALSE
  ELSE IF a.k = "inf" THEN a.v < 0 /\ ~(b.k = "inf" /\ b.v < 0)
  ELSE IF b.k = "inf" THEN b.v > 0
  ELSE a.v < b.v

\* the sequence a function on 1 .. n is, with every element evaluated
Seq1(f) == <<>> \o f

\* acc + q[1] + q[2] + ..., added in that order
RECURSIVE SumFrom(_, _, _)
SumFrom(q, i, acc) == IF i > Len(q) THEN acc ELSE SumFrom(q, i + 1, DAdd(acc, q[i]))

SumSeq(q, acc) == SumFrom(q, 1, acc)

\* --------------------------------------------------------------- points
Point(x, y) == [x |-> x, y |-> y]

\* point::operator+=
PointAdd(p, q) == Point(p.x + q.x, p.y + q.y)

\* point::operator/= (exact on the lattice: every divisor used divides Unit)
PointDiv(p, n) == Point(p.x \div n, p.y \div n)

\* squared Euclidean distance, in lattice steps squared
Distance2(p, q) ==
  LET dx == p.x - q.x
      dy == p.y - q.y
  IN  dx * dx + dy * dy

\* point::distance: the Euclidean distance as a double
Distance(p, q) == Fin(ISqrt(Distance2(p, q)))

\* ---------------------------------------------------------------- state
VARIABLES
  points_,        \* the caller's points: object id -> lattice point
  cluster_ids,    \* p_.cluster_ids: object id -> cluster id or UNCLASSIFIED
  num_clusters,   \* p_.num_clusters()
  limits,         \* std::numeric_limits<double>: has_quiet_NaN, has_infinity
  clusters_,      \* cluster id -> dbscan_cluster
  ann_data_points_, \* the coordinates held by kd_tree_: object id -> point
  r_,             \* UnsetR until the first pipeline run
  RCRs_,          \* <<i, j>> -> the RCR pair list of the matrix cell (i, j)
  cdbw_, separation_, compactness_, cohesion_,
  intra_cluster_density_change_,
  ret,            \* value returned by the last compute() call
  calls,          \* number of compute() calls made so far
  steps,          \* the pipeline steps the last compute() call ran, in order
  card2_log,      \* the two-cluster cardinality() calls of the last compute()
  dens_log,       \* density(s), s = 0.1 .. 0.8, of the last compute()
  pc,             \* position of a compute() call followed step by step
  prev,           \* results of the engine run before on the same classified input
  numElements, sample_size,        \* arguments of random_subset
  rs_first, rs_remaining, rs_m,    \* its locals first, remaining, m
  out,            \* the indices written through the output iterator
  rs_pc,          \* "idle", "loop" or "done"
  random_zero     \* whether random(0) has been called

vars == <<points_, cluster_ids, num_clusters, limits, clusters_, ann_data_points_,
          r_,
          RCRs_, cdbw_, separation_, compactness_, cohesion_,
          intra_cluster_density_change_, ret, calls, steps, card2_log, dens_log,
          pc, prev,
          numElements, sample_size, rs_first, rs_remaining, rs_m, out, rs_pc,
          random_zero>>

\* the variables of random_subset
rs_vars == <<numElements, sample_size, rs_first, rs_remaining, rs_m, out, rs_pc,
             random_zero>>

\* partition::UNCLASSIFIED, the label of a noise object
UNCLASSIFIED == -1

\* a field the constructor does not initialise and nothing has written yet
Unset == [k |-> "unset", v |-> 0]
UnsetR == -2

ClusterIds == 0 .. (num_clusters - 1)

\* ------------------------------------------------------- dbscan_cluster
\* dbscan_cluster::dbscan_cluster: no members, centroid_ and stdev_ not yet set
NewCluster(id) ==
  [cluster_id_ |-> id, cluster_points_ |-> <<>>, centroid_ |-> Point(0, 0),
   stdev_ |-> Unset, representatives_ |-> <<>>]

\* add_point pushing to the front of the member list
add_point_front(c, point_id) ==
  [c EXCEPT !.cluster_points_ = <<point_id>> \o @]

\* dbscan_cluster::add_point
add_point(c, point_id) ==
  [c EXCEPT !.cluster_points_ = Append(@, point_id)]

RECURSIVE SumPoints(_, _, _)
SumPoints(cp, i, acc) ==
  IF i > Len(cp) THEN acc ELSE SumPoints(cp, i + 1, PointAdd(acc, points_[cp[i]]))

RECURSIVE SumSquares(_, _, _, _)
SumSquares(cp, centroid, i, acc) ==
  IF i > Len(cp) THEN acc
  ELSE LET val == Distance(centroid, points_[cp[i]])
       IN  SumSquares(cp, centroid, i + 1, DAdd(acc, DMul(val, val)))

\* compute_data with a stdev of zero for a cluster of one member
compute_data_guarded(c) ==
  LET cp == c.cluster_points_
      m  == Len(cp)
  IN  IF m = 0 THEN c
      ELSE LET first    == points_[cp[1]]
               centroid == IF m > 1 THEN PointDiv(SumPoints(cp, 2, first), m) ELSE first
               sum_squares == SumSquares(cp, centroid, 1, Zero)
           IN  [c EXCEPT !.centroid_ = centroid,
                         !.stdev_ = IF m = 1 THEN Zero
                                    ELSE DSqrt(DDiv(sum_squares, FromInt(m - 1)))]

\* dbscan_cluster::compute_data
compute_data(c) ==
  LET cp == c.cluster_points_
      m  == Len(cp)
  IN  IF m = 0 THEN c
      ELSE LET first    == points_[cp[1]]
               centroid == IF m > 1 THEN PointDiv(SumPoints(cp, 2, first), m) ELSE first
               sum_squares == SumSquares(cp, centroid, 1, Zero)
           IN  [c EXCEPT !.centroid_ = centroid,
                         !.stdev_ = DSqrt(DDiv(sum_squares, FromInt(m - 1)))]

\* the inner loop of choose_representatives: the unused member farthest from
\* `last`, first found on a tie; acc is left as it was when no unused member is
\* farther than numeric_limits<double>::min()
RECURSIVE ScanFarthest(_, _, _, _, _)
ScanFarthest(cp, used, last, j, acc) ==
  IF j > Len(cp) THEN acc
  ELSE LET current_distance == Distance2(last, points_[cp[j]])
       IN  ScanFarthest(cp, used, last, j + 1,
             IF ~used[j] /\ current_distance > acc.max_distance
             THEN [max_distance |-> current_distance,
                   representative_id |-> cp[j],
                   representative_position |-> j]
             ELSE acc)

\* the outer loop of choose_representatives.  last_representative is a reference
\* to centroid_, so the assignment at the end of an iteration writes centroid_.
RECURSIVE ChooseLoop(_, _, _, _, _, _, _)
ChooseLoop(c, r, i, reps, used, last, pos) ==
  IF i >= r THEN [c EXCEPT !.representatives_ = reps, !.centroid_ = last]
  ELSE LET acc == ScanFarthest(c.cluster_points_, used, last, 1,
                    [max_distance |-> 0, representative_id |-> 0,
                     representative_position |-> pos])
       IN  ChooseLoop(c, r, i + 1, Append(reps, acc.representative_id),
                      [used EXCEPT ![acc.representative_position] = TRUE],
                      points_[acc.representative_id], acc.representative_position)

\* dbscan_cluster::choose_representatives
choose_representatives(c, r) ==
  IF r >= Len(c.cluster_points_)
  THEN [c EXCEPT !.representatives_ = c.cluster_points_]
  ELSE ChooseLoop(c, r, 0, <<>>, [j \in 1 .. Len(c.cluster_points_) |-> FALSE],
                  c.centroid_, 1)

RECURSIVE ScanClosest(_, _, _, _, _)
ScanClosest(reps, p, i, min_distance, result) ==
  IF i > Len(reps) THEN result
  ELSE LET current_distance == Distance2(p, points_[reps[i]])
       IN  IF current_distance < min_distance
           THEN ScanClosest(reps, p, i + 1, current_distance, reps[i])
           ELSE ScanClosest(reps, p, i + 1, min_distance, result)

\* closest_representative with <= in its comparison: the last of the closest
closest_representative_last(c, p) ==
  LET reps == c.representatives_
      k == CHOOSE k \in 1 .. Len(reps) :
             \A l \in 1 .. Len(reps) :
               \/ Distance2(p, points_[reps[k]]) < Distance2(p, points_[reps[l]])
               \/ /\ Distance2(p, points_[reps[k]]) = Distance2(p, points_[reps[l]])
                  /\ l <= k
  IN  reps[k]

\* dbscan_cluster::closest_representative (called with representatives only)
closest_representative(c, p) ==
  LET reps == c.representatives_
  IN  ScanClosest(reps, p, 2, Distance2(p, points_[reps[1]]), reps[1])

\* the interpolation with its ends swapped: centroid_ + s * (p - centroid_)
ShrinkCoord_from_centroid(a, ca, s10) == ca + (s10 * (a - ca)) \div 10

\* s is given in tenths: p + s * (centroid_ - p)
ShrinkCoord(a, ca, s10) == a + (s10 * (ca - a)) \div 10

\* dbscan_cluster::shrunk_representatives
shrunk_representatives(c, s10) ==
  Seq1([i \in 1 .. Len(c.representatives_) |->
          LET p == points_[c.representatives_[i]]
          IN  Point(ShrinkCoord(p.x, c.centroid_.x, s10),
                    ShrinkCoord(p.y, c.centroid_.y, s10))])

\* ----------------------------------------------------------------- CDbw
\* the population loop of create_clusters: objects in index order, noise skipped
RECURSIVE AddPoints(_, _)
AddPoints(cs, i) ==
  IF i >= NumObjects THEN cs
  ELSE AddPoints(IF cluster_ids[i] # UNCLASSIFIED
                 THEN [cs EXCEPT ![cluster_ids[i]] = add_point(@, i)]
                 ELSE cs,
                 i + 1)

\* CDbw::create_clusters: the clusters_ vector
create_clusters ==
  LET filled == AddPoints([i \in ClusterIds |-> NewCluster(i)], 0)
  IN  [i \in ClusterIds |-> compute_data(filled[i])]

\* CDbw::create_clusters: the points handed to the kd-tree, one per object
create_ann_points == [i \in Objects |-> points_[i]]

\* CDbw::range_query / ANNkd_tree::annkFRSearch: the objects within `radix` of u
\* (squared distance <= radix * radix), for a radius that is a number
range_query(u, radix) ==
  LET radix2 == radix.v * radix.v
  IN  {o \in DOMAIN ann_data_points_ : Distance2(u, ann_data_points_[o]) <= radix2}

\* CDbw::cardinality(point, double, medoid_id, medoid_id): the count loop
Count2(u, radix, c_i, c_j) ==
  Cardinality({o \in range_query(u, radix) :
                 cluster_ids[o] = c_i \/ cluster_ids[o] = c_j})

\* CDbw::cardinality(point, double, medoid_id, medoid_id): a size_t division.
\* With a NaN radius every comparison of the search is false and what it finds
\* depends on the tree: the count, and so the result, is unspecified.
cardinality2(cl, u, radix, c_i, c_j) ==
  IF IsNaN(radix) THEN Unspecified
  ELSE FromInt(Count2(u, radix, c_i, c_j)
                 \div (Len(cl[c_i].cluster_points_) + Len(cl[c_j].cluster_points_)))

\* CDbw::cardinality(point, double, medoid_id)
cardinality1(cl, u, radix, c_i) ==
  IF IsNaN(radix) THEN Unspecified
  ELSE LET number_of_points ==
             Cardinality({o \in range_query(u, radix) : cluster_ids[o] = c_i})
       IN  DDiv(FromInt(number_of_points), FromInt(Len(cl[c_i].cluster_points_)))

\* one of the first two loops of compute_rcrs_i_j: each representative of
\* `from` paired with its closest representative in `other`
RECURSIVE ClosestPairs(_, _, _, _, _)
ClosestPairs(cl, from, other, v, rcs) ==
  IF v > Len(cl[from].representatives_) THEN rcs
  ELSE ClosestPairs(cl, from, other, v + 1,
         Append(rcs, <<cl[from].representatives_[v],
                       closest_representative(cl[other],
                                              points_[cl[from].representatives_[v]])>>))

\* the third loop comparing first with first and second with second
RECURSIVE MatchLoop_unswapped(_, _, _, _, _)
MatchLoop_unswapped(rcs_i_j, rcs_j_i, vi, vj, result) ==
  IF vi > Len(rcs_i_j) THEN result
  ELSE IF vj > Len(rcs_j_i) THEN MatchLoop_unswapped(rcs_i_j, rcs_j_i, vi + 1, 1, result)
  ELSE MatchLoop_unswapped(rcs_i_j, rcs_j_i, vi, vj + 1,
         IF rcs_i_j[vi][1] = rcs_j_i[vj][1] /\ rcs_i_j[vi][2] = rcs_j_i[vj][2]
         THEN Append(result, rcs_i_j[vi])
         ELSE result)

RECURSIVE MatchLoop(_, _, _, _, _)
MatchLoop(rcs_i_j, rcs_j_i, vi, vj, result) ==
  IF vi > Len(rcs_i_j) THEN result
  ELSE IF vj > Len(rcs_j_i) THEN MatchLoop(rcs_i_j, rcs_j_i, vi + 1, 1, result)
  ELSE MatchLoop(rcs_i_j, rcs_j_i, vi, vj + 1,
         IF rcs_i_j[vi][1] = rcs_j_i[vj][2] /\ rcs_i_j[vi][2] = rcs_j_i[vj][1]
         THEN Append(result, rcs_i_j[vi])
         ELSE result)

\* compute_rcrs_i_j without the reverse confirmation of its third loop
compute_rcrs_i_j_one_way(cl, c_i, c_j) == ClosestPairs(cl, c_i, c_j, 1, <<>>)

\* CDbw::compute_rcrs_i_j
compute_rcrs_i_j(cl, c_i, c_j) ==
  MatchLoop(ClosestPairs(cl, c_i, c_j, 1, <<>>), ClosestPairs(cl, c_j, c_i, 1, <<>>),
            1, 1, <<>>)

\* matrix<vector<pair>>(rows, cols): every cell an empty list
NewMatrix(rows, cols) ==
  [ij \in (0 .. (rows - 1)) \X (0 .. (cols - 1)) |-> <<>>]

RECURSIVE RcrLoop(_, _, _, _)
RcrLoop(cl, i, j, rcrs) ==
  IF i >= num_clusters THEN rcrs
  ELSE IF j >= num_clusters THEN RcrLoop(cl, i + 1, 0, rcrs)
  ELSE RcrLoop(cl, i, j + 1,
         IF i # j THEN [rcrs EXCEPT ![<<i, j>>] = compute_rcrs_i_j(cl, i, j)]
         ELSE rcrs)

\* CDbw::compute_rcrs on the matrix allocated by compute()
compute_rcrs(cl) == RcrLoop(cl, 0, 0, NewMatrix(num_clusters, num_clusters))

\* sqrt((stdev_i^2 + stdev_j^2) / 2) of density_between_clusters
PairStdev(cl, c_i, c_j) ==
  DSqrt(DDiv(DAdd(DMul(cl[c_i].stdev_, cl[c_i].stdev_),
                  DMul(cl[c_j].stdev_, cl[c_j].stdev_)),
             FromInt(2)))

\* u of density_between_clusters: the midpoint of an RCR pair
MidPoint(pair) == PointDiv(PointAdd(points_[pair[1]], points_[pair[2]]), 2)

\* the term one RCR pair adds to sum_densities in density_between_clusters
PairDensity(cl, pair, avg_stdev, c_i, c_j) ==
  LET distance_vi_vj == Distance(points_[pair[1]], points_[pair[2]])
      cardinality_u  == cardinality2(cl, MidPoint(pair), avg_stdev, c_i, c_j)
  IN  DMul(DDiv(distance_vi_vj, DMul(FromInt(2), avg_stdev)), cardinality_u)

\* CDbw::density_between_clusters
density_between_clusters(cl, rcrs, c_i, c_j) ==
  LET RCR_i_j   == rcrs[<<c_i, c_j>>]
      avg_stdev == PairStdev(cl, c_i, c_j)
      terms     == Seq1([p \in 1 .. Len(RCR_i_j) |->
                           PairDensity(cl, RCR_i_j[p], avg_stdev, c_i, c_j)])
  IN  DDiv(SumSeq(terms, Zero), FromInt(Len(RCR_i_j)))

\* CDbw::distance_between_clusters
distance_between_clusters(rcrs, c_i, c_j) ==
  LET RCR_i_j == rcrs[<<c_i, c_j>>]
      terms   == Seq1([p \in 1 .. Len(RCR_i_j) |->
                         Distance(points_[RCR_i_j[p][1]], points_[RCR_i_j[p][2]])])
  IN  DDiv(SumSeq(terms, Zero), FromInt(Len(RCR_i_j)))

\* the inner loop of inter_cluster_density: `>` is false on a NaN
RECURSIVE MaxDensityRow(_, _, _, _, _)
MaxDensityRow(cl, rcrs, i, j, max) ==
  IF j >= num_clusters THEN max
  ELSE LET d == density_between_clusters(cl, rcrs, i, j)
       IN  MaxDensityRow(cl, rcrs, i, j + 1, IF i # j /\ DLess(max, d) THEN d ELSE max)

RECURSIVE SumMaxDensity(_, _, _, _)
SumMaxDensity(cl, rcrs, i, acc) ==
  IF i >= num_clusters THEN acc
  ELSE SumMaxDensity(cl, rcrs, i + 1, DAdd(acc, MaxDensityRow(cl, rcrs, i, 0, DblMin)))

\* CDbw::inter_cluster_density
inter_cluster_density(cl, rcrs) ==
  DDiv(SumMaxDensity(cl, rcrs, 0, Zero), FromInt(num_clusters))

\* the inner loop of compute_separation: `<` is false on a NaN
RECURSIVE MinDistanceRow(_, _, _, _)
MinDistanceRow(rcrs, i, j, min) ==
  IF j >= num_clusters THEN min
  ELSE LET d == distance_between_clusters(rcrs, i, j)
       IN  MinDistanceRow(rcrs, i, j + 1, IF i # j /\ DLess(d, min) THEN d ELSE min)

RECURSIVE SumMinDistance(_, _, _)
SumMinDistance(rcrs, i, acc) ==
  IF i >= num_clusters THEN acc
  ELSE SumMinDistance(rcrs, i + 1, DAdd(acc, MinDistanceRow(rcrs, i, 0, DblMax)))

\* CDbw::compute_separation
compute_separation(cl, rcrs) ==
  LET inter_cluster_density_val == inter_cluster_density(cl, rcrs)
  IN  DDiv(DDiv(SumMinDistance(rcrs, 0, Zero), FromInt(num_clusters)),
           DAdd(FromInt(1), inter_cluster_density_val))

\* the inner loop of density: cardinality() of every shrunk representative of i
ClusterCardinalities(cl, i, s10) ==
  LET shrunk_rep == shrunk_representatives(cl[i], s10)
  IN  Seq1([j \in 1 .. Len(shrunk_rep) |->
              cardinality1(cl, shrunk_rep[j], cl[i].stdev_, i)])

\* the outer loop of density: sum_cardinalities after clusters 0 .. i
RECURSIVE SumClusters(_, _, _)
SumClusters(cl, s10, i) ==
  IF i < 0 THEN Zero
  ELSE SumSeq(ClusterCardinalities(cl, i, s10), SumClusters(cl, s10, i - 1))

\* density dividing by the number of shrunk representatives there are
density_by_count(cl, s10, r) ==
  DDiv(SumClusters(cl, s10, num_clusters - 1),
       FromInt(Cardinality({cj \in ClusterIds \X (1 .. NumObjects) :
                              cj[2] <= Len(cl[cj[1]].representatives_)})))

\* CDbw::density, s in tenths, r the value of r_
density(cl, s10, r) == DDiv(SumClusters(cl, s10, num_clusters - 1), FromInt(r))

RECURSIVE SumVariances(_, _, _)
SumVariances(cl, i, acc) ==
  IF i >= num_clusters THEN acc
  ELSE SumVariances(cl, i + 1, DAdd(acc, DMul(cl[i].stdev_, cl[i].stdev_)))

\* avg_stdev of intra_cluster_density: the same value at every call of one run
AvgStdev(cl) == DSqrt(DDiv(SumVariances(cl, 0, Zero), FromInt(num_clusters)))

\* CDbw::intra_cluster_density, given its avg_stdev and the value density_s of
\* its call density(s)
intra_cluster_density(avg_stdev, density_s) ==
  DDiv(density_s, DMul(FromInt(num_clusters), avg_stdev))

\* the number of values of s the loop `for (s = 0.1; s <= 0.8; s += 0.1)` visits
NumShrinkSteps == 8

\* density(s) for s = 0.1, 0.2, .., 0.8, in the order the loop asks for them
Densities(cl, r) == Seq1([s10 \in 1 .. NumShrinkSteps |-> density(cl, s10, r)])

\* sum of |q[i] - q[i-1]| over the adjacent pairs of q
SumChanges(q) ==
  SumSeq(Seq1([i \in 1 .. (Len(q) - 1) |-> DAbs(DSub(q[i + 1], q[i]))]), Zero)

\* CDbw::compactness_and_intra_density_changes, given dens = Densities(cl, r_):
\* the value returned and the value left in intra_cluster_density_change_
compactness_and_intra_density_changes(cl, dens) ==
  LET avg_stdev == AvgStdev(cl)
      intra_densities_values ==
        Seq1([n \in 1 .. Len(dens) |-> intra_cluster_density(avg_stdev, dens[n])])
  IN  [compactness |-> DDiv(SumSeq(intra_densities_values, Zero), FromInt(8)),
       intra_cluster_density_change |->
         DDiv(SumChanges(intra_densities_values), FromInt(7))]

\* cohesion as compactness times (1 + change)
compute_cohesion_times(compact, change) == DMul(compact, DAdd(FromInt(1), change))

\* CDbw::compute_cohesion
compute_cohesion(compact, change) == DDiv(compact, DAdd(FromInt(1), change))

\* the sentinel with infinity preferred to NaN
UndefinedSentinel_inf_first(lim) ==
  IF lim.has_infinity THEN Inf(1)
  ELSE IF lim.has_quiet_NaN THEN NaN
  ELSE DblMax

\* the value compute() returns when the criterion is not defined
UndefinedSentinel(lim) ==
  IF lim.has_quiet_NaN THEN NaN
  ELSE IF lim.has_infinity THEN Inf(1)
  ELSE DblMax

\* the two-cluster cardinality() calls density_between_clusters makes in one run
Card2Log(cl, rcrs) ==
  UNION { { LET u     == MidPoint(rcrs[ij][p])
                radix == PairStdev(cl, ij[1], ij[2])
            IN  [c_i |-> ij[1], c_j |-> ij[2], u |-> u, radix |-> radix,
                 number_of_points |-> IF IsNaN(radix) THEN 0
                                      ELSE Count2(u, radix, ij[1], ij[2]),
                 result |-> cardinality2(cl, u, radix, ij[1], ij[2])] :
            p \in 1 .. Len(rcrs[ij]) } :
          ij \in {c \in ClusterIds \X ClusterIds : c[1] # c[2]} }

\* the pipeline steps of compute(), in the order the code runs them
PipelineSteps ==
  [i \in 1 .. num_clusters |-> <<"choose_representatives", i - 1>>]
  \o << <<"compute_rcrs", 0>>, <<"compute_separation", 0>>,
        <<"compactness_and_intra_density_changes", 0>>, <<"compute_cohesion", 0>> >>

\* ----------------------------------------------------------------- inputs
Lattice == {Point(x * Unit, y * Unit) : x \in 0 .. MaxX, y \in 0 .. MaxY}

\* the objects of cluster c, and the first of them
Members(ids, c) == {o \in Objects : ids[o] = c}
FirstMember(ids, c) == CHOOSE o \in Members(ids, c) : \A q \in Members(ids, c) : o <= q

\* a partition with k clusters, as a DBSCAN run over the objects in index order
\* numbers them: every cluster has a member, and cluster c is found before c+1
Partitions(k) ==
  {ids \in [Objects -> (0 .. (k - 1)) \cup {UNCLASSIFIED}] :
     /\ \A c \in 0 .. (k - 1) : Members(ids, c) # {}
     /\ \A c \in 0 .. (k - 2) : FirstMember(ids, c) < FirstMember(ids, c + 1)}

\* the pipeline's arithmetic is modelled for IEEE 754 doubles; the traits only
\* vary where no arithmetic is done, on the one-cluster path
Limits(k) ==
  IF k = 1 THEN [has_quiet_NaN : BOOLEAN, has_infinity : BOOLEAN]
  ELSE {[has_quiet_NaN |-> TRUE, has_infinity |-> TRUE]}

\* no earlier engine run is on record
NoPrev == [r |-> UnsetR]

\* random_subset is not running
RsIdle ==
  /\ numElements = 0 /\ sample_size = 0
  /\ rs_first = 0 /\ rs_remaining = 0 /\ rs_m = 0
  /\ out = <<>> /\ rs_pc = "idle" /\ random_zero = FALSE

\* the arguments of the CDbw constructor
Inputs ==
  /\ num_clusters \in 1 .. MaxClusters
  /\ cluster_ids \in Partitions(num_clusters)
  /\ points_ \in [Objects -> Lattice]
  /\ limits \in Limits(num_clusters)

\* CDbw::CDbw: the engine as its constructor leaves it
Constructed ==
  /\ clusters_ = create_clusters
  /\ ann_data_points_ = create_ann_points
  /\ r_ = UnsetR
  /\ RCRs_ = NewMatrix(0, 0)
  /\ cdbw_ = Zero
  /\ separation_ = Zero
  /\ compactness_ = Zero
  /\ cohesion_ = Zero
  /\ intra_cluster_density_change_ = Unset
  /\ ret = Unset
  /\ calls = 0
  /\ steps = <<>>
  /\ card2_log = {}
  /\ dens_log = <<>>
  /\ pc = "idle"

\* CDbw::CDbw on a partition and its points
Init == Inputs /\ Constructed /\ prev = NoPrev /\ RsIdle

\* the loop of compute() that has every cluster choose its representatives
RECURSIVE ChooseAll(_, _, _)
ChooseAll(cl, r, i) ==
  IF i >= num_clusters THEN cl
  ELSE ChooseAll([cl EXCEPT ![i] = choose_representatives(@, r)], r, i + 1)

\* the one-cluster return placed after r_ and RCRs_ are set
compute_one_cluster_late(r) ==
  /\ ret' = UndefinedSentinel(limits)
  /\ steps' = <<>>
  /\ card2_log' = {}
  /\ dens_log' = <<>>
  /\ r_' = r
  /\ RCRs_' = NewMatrix(num_clusters, num_clusters)
  /\ UNCHANGED <<clusters_, cdbw_, separation_, compactness_,
                 cohesion_, intra_cluster_density_change_>>

\* CDbw::compute on one cluster: the return of the undefined value
compute_one_cluster(r) ==
  /\ ret' = UndefinedSentinel(limits)
  /\ steps' = <<>>
  /\ card2_log' = {}
  /\ dens_log' = <<>>
  /\ UNCHANGED <<clusters_, r_, RCRs_, cdbw_, separation_, compactness_,
                 cohesion_, intra_cluster_density_change_>>

\* CDbw::compute
compute(r) ==
  /\ pc = "idle"
  /\ calls < MaxCalls
  /\ calls' = calls + 1
  /\ IF num_clusters = 1
     THEN compute_one_cluster(r)
     ELSE LET cl    == ChooseAll(clusters_, r, 0)
              rcrs  == compute_rcrs(cl)
              sep   == compute_separation(cl, rcrs)
              dens  == Densities(cl, r)
              cmp   == compactness_and_intra_density_changes(cl, dens)
              coh   == compute_cohesion(cmp.compactness,
                                        cmp.intra_cluster_density_change)
              score == DMul(DMul(coh, sep), cmp.compactness)
          IN  /\ r_' = r
              /\ clusters_' = cl
              /\ RCRs_' = rcrs
              /\ separation_' = sep
              /\ compactness_' = cmp.compactness
              /\ intra_cluster_density_change_' = cmp.intra_cluster_density_change
              /\ cohesion_' = coh
              /\ cdbw_' = score
              /\ ret' = score
              /\ steps' = PipelineSteps
              /\ card2_log' = Card2Log(cl, rcrs)
              /\ dens_log' = dens
  /\ UNCHANGED <<points_, cluster_ids, num_clusters, limits, ann_data_points_>>
  /\ UNCHANGED <<pc, prev, rs_vars>>

Next == \E r \in 0 .. MaxR : compute(r)

Spec == Init /\ [][Next]_vars

\* ------------------------------------- two engines on inputs alike but for noise
\* the partitions tried have two clusters or more and a noise object
InitNoise ==
  /\ Init
  /\ num_clusters >= 2
  /\ \E o \in Objects : cluster_ids[o] = UNCLASSIFIED

\* what the engine that has run leaves on record
Results ==
  [r |-> r_,
   representatives |-> [c \in ClusterIds |-> clusters_[c].representatives_],
   RCRs |-> RCRs_,
   separation |-> separation_, compactness |-> compactness_,
   cohesion |-> cohesion_, ret |-> ret]

\* the caller moves noise object o to p once the first engine has run
move_noise(o, p) ==
  /\ calls = 1
  /\ prev.r = UnsetR
  /\ cluster_ids[o] = UNCLASSIFIED
  /\ p # points_[o]
  /\ prev' = Results
  /\ points_' = [points_ EXCEPT ![o] = p]
  /\ UNCHANGED <<cluster_ids, num_clusters, limits, clusters_, ann_data_points_,
                 r_, RCRs_, cdbw_, separation_, compactness_, cohesion_,
                 intra_cluster_density_change_, ret, calls, steps, card2_log,
                 dens_log, pc, rs_vars>>

\* CDbw::CDbw again: a second engine, on the same partition and the points as
\* they are now
construct_second ==
  /\ prev.r # UnsetR
  /\ ret # Unset
  /\ calls = 1
  /\ clusters_' = create_clusters
  /\ ann_data_points_' = create_ann_points
  /\ r_' = UnsetR
  /\ RCRs_' = NewMatrix(0, 0)
  /\ cdbw_' = Zero
  /\ separation_' = Zero
  /\ compactness_' = Zero
  /\ cohesion_' = Zero
  /\ intra_cluster_density_change_' = Unset
  /\ ret' = Unset
  /\ steps' = <<>>
  /\ card2_log' = {}
  /\ dens_log' = <<>>
  /\ UNCHANGED <<points_, cluster_ids, num_clusters, limits, calls, pc, prev,
                 rs_vars>>

\* compute(r) on the first engine
compute_first(r) == calls = 0 /\ compute(r)

\* compute on the second engine, with the r of the first
compute_second == prev.r # UnsetR /\ ret = Unset /\ compute(prev.r)

NextNoise ==
  \/ \E r \in 0 .. MaxR : compute_first(r)
  \/ \E o \in Objects : \E p \in Lattice : move_noise(o, p)
  \/ construct_second
  \/ compute_second

SpecNoise == InitNoise /\ [][NextNoise]_vars

\* ------------------------------------------- compute(), statement by statement
\* what every statement of compute() leaves alone
step_frame == <<points_, cluster_ids, num_clusters, limits, ann_data_points_,
                prev, rs_vars>>

\* compute() up to its first loop: the one-cluster return, or r_ and RCRs_ set
compute_enter(r) ==
  /\ pc = "idle"
  /\ calls < MaxCalls
  /\ steps' = <<>>
  /\ card2_log' = {}
  /\ dens_log' = <<>>
  /\ IF num_clusters = 1
     THEN /\ ret' = UndefinedSentinel(limits)
          /\ calls' = calls + 1
          /\ UNCHANGED <<pc, r_, RCRs_>>
     ELSE /\ r_' = r
          /\ RCRs_' = NewMatrix(num_clusters, num_clusters)
          /\ pc' = "choose_representatives"
          /\ UNCHANGED <<ret, calls>>
  /\ UNCHANGED <<clusters_, cdbw_, separation_, compactness_, cohesion_,
                 intra_cluster_density_change_, step_frame>>

\* one iteration of the loop over the clusters: cluster i = Len(steps) chooses
choose_representatives_step ==
  /\ pc = "choose_representatives"
  /\ clusters_' = [clusters_ EXCEPT ![Len(steps)] = choose_representatives(@, r_)]
  /\ steps' = Append(steps, <<"choose_representatives", Len(steps)>>)
  /\ pc' = IF Len(steps) + 1 < num_clusters THEN pc ELSE "compute_rcrs"
  /\ UNCHANGED <<r_, RCRs_, cdbw_, separation_, compactness_, cohesion_,
                 intra_cluster_density_change_, ret, calls, card2_log, dens_log,
                 step_frame>>

\* compute_rcrs(); with the call of compute_separation() left out after it
compute_rcrs_step_no_separation ==
  /\ pc = "compute_rcrs"
  /\ RCRs_' = compute_rcrs(clusters_)
  /\ steps' = Append(steps, <<"compute_rcrs", 0>>)
  /\ pc' = "compactness_and_intra_density_changes"
  /\ UNCHANGED <<clusters_, r_, cdbw_, separation_, compactness_, cohesion_,
                 intra_cluster_density_change_, ret, calls, card2_log, dens_log,
                 step_frame>>

\* compute_rcrs();
compute_rcrs_step ==
  /\ pc = "compute_rcrs"
  /\ RCRs_' = compute_rcrs(clusters_)
  /\ steps' = Append(steps, <<"compute_rcrs", 0>>)
  /\ pc' = "compute_separation"
  /\ UNCHANGED <<clusters_, r_, cdbw_, separation_, compactness_, cohesion_,
                 intra_cluster_density_change_, ret, calls, card2_log, dens_log,
                 step_frame>>

\* separation_ = compute_separation();
compute_separation_step ==
  /\ pc = "compute_separation"
  /\ separation_' = compute_separation(clusters_, RCRs_)
  /\ card2_log' = Card2Log(clusters_, RCRs_)
  /\ steps' = Append(steps, <<"compute_separation", 0>>)
  /\ pc' = "compactness_and_intra_density_changes"
  /\ UNCHANGED <<clusters_, r_, RCRs_, cdbw_, compactness_, cohesion_,
                 intra_cluster_density_change_, ret, calls, dens_log, step_frame>>

\* compactness_ = compactness_and_intra_density_changes();
compactness_step ==
  /\ pc = "compactness_and_intra_density_changes"
  /\ LET dens == Densities(clusters_, r_)
         cmp  == compactness_and_intra_density_changes(clusters_, dens)
     IN  /\ compactness_' = cmp.compactness
         /\ intra_cluster_density_change_' = cmp.intra_cluster_density_change
         /\ dens_log' = dens
  /\ steps' = Append(steps, <<"compactness_and_intra_density_changes", 0>>)
  /\ pc' = "compute_cohesion"
  /\ UNCHANGED <<clusters_, r_, RCRs_, cdbw_, separation_, cohesion_, ret, calls,
                 card2_log, step_frame>>

\* cohesion_ = compute_cohesion(compactness_);
compute_cohesion_step ==
  /\ pc = "compute_cohesion"
  /\ cohesion_' = compute_cohesion(compactness_, intra_cluster_density_change_)
  /\ steps' = Append(steps, <<"compute_cohesion", 0>>)
  /\ pc' = "return"
  /\ UNCHANGED <<clusters_, r_, RCRs_, cdbw_, separation_, compactness_,
                 intra_cluster_density_change_, ret, calls, card2_log, dens_log,
                 step_frame>>

\* cdbw_ = cohesion_*separation_*compactness_; return cdbw_;
compute_return ==
  /\ pc = "return"
  /\ cdbw_' = DMul(DMul(cohesion_, separation_), compactness_)
  /\ ret' = cdbw_'
  /\ calls' = calls + 1
  /\ pc' = "idle"
  /\ UNCHANGED <<clusters_, r_, RCRs_, separation_, compactness_, cohesion_,
                 intra_cluster_density_change_, steps, card2_log, dens_log,
                 step_frame>>

NextSteps ==
  \/ \E r \in 0 .. MaxR : compute_enter(r)
  \/ choose_representatives_step
  \/ compute_rcrs_step
  \/ compute_separation_step
  \/ compactness_step
  \/ compute_cohesion_step
  \/ compute_return

\* the positions of a compute() call
PcValues ==
  {"idle", "choose_representatives", "compute_rcrs", "compute_separation",
   "compactness_and_intra_density_changes", "compute_cohesion", "return"}

\* a statement of a call that has begun is executed: every statement moves pc
\* or adds to steps, so the change of these two says that one was
StatementTaken ==
  /\ pc # "idle"
  /\ pc' \in PcValues
  /\ steps' \in {steps} \cup {Append(steps, <<n, c>>) :
                                n \in PcValues, c \in 0 .. (MaxClusters - 1)}
  /\ (pc' # pc \/ steps' # steps)

\* compute() is straight-line code over bounded loops: a call that has begun
\* executes its next statement
SpecSteps == Init /\ [][NextSteps]_vars /\ WF_<<pc, steps>>(StatementTaken)

\* -------------------------------------------------------- random_subset
\* largest numElements and sample_size tried
MaxElements == 4

\* size_t is modelled four bits wide: ++ and -- wrap modulo SizeMod
SizeMod == 16

\* what a call random(N) may return: a value in [0, N); the generator's contract
\* says nothing for N = 0, where any value may come back
RandomValues(N) == IF N > 0 THEN 0 .. (N - 1) ELSE 0 .. (SizeMod - 1)

\* an engine on fixed arguments, left alone while random_subset runs
FixedInputs ==
  /\ num_clusters = 1
  /\ cluster_ids = [o \in Objects |-> 0]
  /\ points_ = [o \in Objects |-> Point(0, 0)]
  /\ limits = [has_quiet_NaN |-> TRUE, has_infinity |-> TRUE]

\* random_subset entered: first = 0, remaining = numElements, m = sample_size
InitRS ==
  /\ FixedInputs /\ Constructed /\ prev = NoPrev
  /\ numElements \in 0 .. MaxElements
  /\ sample_size \in 0 .. MaxElements
  /\ rs_first = 0
  /\ rs_remaining = numElements
  /\ rs_m = sample_size
  /\ out = <<>>
  /\ rs_pc = "loop"
  /\ random_zero = FALSE

engine_vars == <<points_, cluster_ids, num_clusters, limits, clusters_,
                 ann_data_points_, r_, RCRs_, cdbw_, separation_, compactness_,
                 cohesion_, intra_cluster_density_change_, ret, calls, steps,
                 card2_log, dens_log, pc, prev>>

\* one iteration of the while loop with random(numElements) in its test
random_subset_loop_total ==
  /\ rs_pc = "loop"
  /\ rs_m > 0
  /\ \E v \in RandomValues(numElements) :
       IF v < rs_m
       THEN out' = Append(out, rs_first) /\ rs_m' = rs_m - 1
       ELSE UNCHANGED <<out, rs_m>>
  /\ random_zero' = (random_zero \/ numElements = 0)
  /\ rs_remaining' = (rs_remaining + SizeMod - 1) % SizeMod
  /\ rs_first' = (rs_first + 1) % SizeMod
  /\ UNCHANGED <<numElements, sample_size, rs_pc, engine_vars>>

\* one iteration of the while loop of random_subset
random_subset_loop ==
  /\ rs_pc = "loop"
  /\ rs_m > 0
  /\ \E v \in RandomValues(rs_remaining) :
       IF v < rs_m
       THEN out' = Append(out, rs_first) /\ rs_m' = rs_m - 1
       ELSE UNCHANGED <<out, rs_m>>
  /\ random_zero' = (random_zero \/ rs_remaining = 0)
  /\ rs_remaining' = (rs_remaining + SizeMod - 1) % SizeMod
  /\ rs_first' = (rs_first + 1) % SizeMod
  /\ UNCHANGED <<numElements, sample_size, rs_pc, engine_vars>>

\* the loop test fails (m = 0) and random_subset returns
random_subset_return ==
  /\ rs_pc = "loop"
  /\ rs_m = 0
  /\ rs_pc' = "done"
  /\ UNCHANGED <<numElements, sample_size, rs_first, rs_remaining, rs_m, out,
                 random_zero, engine_vars>>

NextRS == random_subset_loop \/ random_subset_return

\* random_subset is sequential code: its next step is always taken
SpecRS == InitRS /\ [][NextRS]_vars /\ WF_vars(NextRS)

\* ================================================================ claims
Ran == calls >= 1
RanPipeline == calls >= 1 /\ num_clusters >= 2

SeqSet(q) == {q[n] : n \in 1 .. Len(q)}
SizeOf(c) == Len(clusters_[c].cluster_points_)
Min(a, b) == IF a < b THEN a ELSE b

\* C1: two consecutive compute(r) calls with the same r >= 1 on a partition with
\* at least two clusters return the same score and leave separation(),
\* compactness() and cohesion() at the same values.
C1_Deterministic ==
  [][(num_clusters >= 2 /\ calls' = calls + 1 /\ r_ >= 1 /\ r_' = r_)
       => (/\ ret' = ret
           /\ separation_' = separation_
           /\ compactness_' = compactness_
           /\ cohesion_' = cohesion_)]_vars

\* C2: after choose_representatives(r), r >= 1, a cluster of m members has
\* min(r, m) representatives, pairwise distinct, all members of the cluster, and
\* the whole member list in membership order when r >= m.
C2_Representatives ==
  (RanPipeline /\ r_ >= 1) =>
    \A c \in ClusterIds :
      LET reps == clusters_[c].representatives_
          cp   == clusters_[c].cluster_points_
      IN  /\ Len(reps) = Min(r_, Len(cp))
          /\ \A a, b \in 1 .. Len(reps) : a # b => reps[a] # reps[b]
          /\ SeqSet(reps) \subseteq SeqSet(cp)
          /\ r_ >= Len(cp) => reps = cp

\* the pair (a, b) with its elements swapped
Swap(pair) == <<pair[2], pair[1]>>

\* C3: after compute_rcrs(), the set of pairs in RCRs_(i,j) is the set of pairs
\* in RCRs_(j,i) with the elements of each pair swapped, for all clusters i # j.
C3_RcrMirror ==
  RanPipeline =>
    \A i, j \in ClusterIds :
      i # j => SeqSet(RCRs_[<<i, j>>]) = {Swap(pr) : pr \in SeqSet(RCRs_[<<j, i>>])}

\* a run where a cell holds a pair and both clusters also have a representative
\* without a mutual partner
C3_Witness ==
  /\ RanPipeline
  /\ \E i, j \in ClusterIds :
       /\ i # j
       /\ Len(RCRs_[<<i, j>>]) >= 1
       /\ Len(RCRs_[<<i, j>>]) < Len(clusters_[i].representatives_)
       /\ Len(RCRs_[<<i, j>>]) < Len(clusters_[j].representatives_)

\* C4: on a partition with exactly one cluster compute(r) returns the undefined
\* sentinel (NaN if there is one, else +infinity, else the largest finite
\* double) and runs no pipeline step: no representatives are chosen, no RCR cell
\* is computed, and separation, compactness and cohesion are not computed.
C4_OneCluster ==
  (Ran /\ num_clusters = 1) =>
    /\ limits.has_quiet_NaN => ret = NaN
    /\ (~limits.has_quiet_NaN /\ limits.has_infinity) => ret = Inf(1)
    /\ (~limits.has_quiet_NaN /\ ~limits.has_infinity) => ret = DblMax
    /\ steps = <<>>
    /\ \A c \in ClusterIds : clusters_[c].representatives_ = <<>>
    /\ DOMAIN RCRs_ = {}
    /\ separation_ = Zero /\ compactness_ = Zero /\ cohesion_ = Zero
    /\ card2_log = {} /\ dens_log = <<>>

C4_Witness ==
  Ran /\ num_clusters = 1 /\ ~limits.has_quiet_NaN /\ limits.has_infinity /\ ret = Inf(1)

\* C5: no pipeline ever runs with r = 0: a representative count of 0 is rejected
\* before representatives are chosen or density(s) divides by r.
C5_ZeroRejected == ~(steps # <<>> /\ r_ = 0)

\* C6: the two-cluster cardinality(u, radius, i, j) is the exact ratio of the
\* points of clusters i and j within the radius to |cluster_i| + |cluster_j|,
\* strictly between 0 and 1 when some but not all of them are within it.
C6_ExactRatio ==
  \A e \in card2_log :
    ~IsNaN(e.radix) =>
      LET total == SizeOf(e.c_i) + SizeOf(e.c_j)
      IN  /\ e.result = DDiv(FromInt(e.number_of_points), FromInt(total))
          /\ (0 < e.number_of_points /\ e.number_of_points < total)
               => (DLess(Zero, e.result) /\ DLess(e.result, FromInt(1)))

\* C7: after compute(r) on at least two clusters the value returned is cdbw(),
\* cdbw() = cohesion() * separation() * compactness(), and cohesion() =
\* compactness() / (1 + intra_cluster_density_change), all of the same call.
C7_Composition ==
  RanPipeline =>
    /\ ret = cdbw_
    /\ cdbw_ = DMul(DMul(cohesion_, separation_), compactness_)
    /\ cohesion_ = DDiv(compactness_, DAdd(FromInt(1), intra_cluster_density_change_))

\* a run with a positive finite score and a density that changed with s
C7_Witness ==
  /\ RanPipeline
  /\ IsFinite(cdbw_) /\ cdbw_.v > 0
  /\ IsFinite(intra_cluster_density_change_) /\ intra_cluster_density_change_.v > 0

\* C8: a cluster with exactly one member has stdev NaN, and after compute(r) on
\* such a partition (two clusters or more) compactness(), cohesion() and the
\* score returned are NaN.
C8_SingletonNaN ==
  \A c \in ClusterIds :
    SizeOf(c) = 1 =>
      /\ IsNaN(clusters_[c].stdev_)
      /\ RanPipeline => (IsNaN(compactness_) /\ IsNaN(cohesion_) /\ IsNaN(ret))

\* a run on a singleton cluster next to a cluster of three with a real stdev
C8_Witness ==
  /\ RanPipeline /\ r_ >= 1
  /\ \E c \in ClusterIds : SizeOf(c) = 1
  /\ \E c \in ClusterIds : IsFinite(clusters_[c].stdev_) /\ clusters_[c].stdev_.v > 0

\* the points of cluster c within its stdev of point u
WithinStdev(c, u) ==
  {o \in Objects : /\ cluster_ids[o] = c
                   /\ Distance2(u, points_[o])
                        <= clusters_[c].stdev_.v * clusters_[c].stdev_.v}

\* the shrunk representatives of every cluster, as (cluster, position) pairs
ShrunkIndex ==
  {cj \in ClusterIds \X (1 .. NumObjects) :
     cj[2] <= Len(clusters_[cj[1]].representatives_)}

RECURSIVE SumOver(_, _)
SumOver(S, f) ==
  IF S = {} THEN 0
  ELSE LET x == CHOOSE y \in S : TRUE IN f[x] + SumOver(S \ {x}, f)

\* sum over the shrunk representatives p of every cluster i of
\* |points of i within stdev_i of p| / |i|, in units of 1/Unit
CardinalitySum(s10) ==
  SumOver(ShrunkIndex,
          [cj \in ShrunkIndex |->
             (Cardinality(WithinStdev(cj[1],
                 shrunk_representatives(clusters_[cj[1]], s10)[cj[2]])) * Unit)
               \div SizeOf(cj[1])])

AllStdevReal == \A c \in ClusterIds : IsFinite(clusters_[c].stdev_)

\* C9: density(s) is the sum over every cluster i and every shrunk
\* representative p of i of cardinality(p, stdev_i, i), divided by the r passed
\* to compute, whatever the number of shrunk points.
C9_DensityDivisor ==
  (RanPipeline /\ r_ >= 1 /\ AllStdevReal) =>
    \A s10 \in 1 .. NumShrinkSteps :
      dens_log[s10] = Fin(CardinalitySum(s10) \div r_)

\* a run where a cluster has fewer than r members, the shrunk points are not r
\* in number, and density is not zero
C9_Witness ==
  /\ RanPipeline /\ r_ >= 1 /\ AllStdevReal
  /\ \E c \in ClusterIds : SizeOf(c) < r_
  /\ Cardinality(ShrunkIndex) # r_
  /\ dens_log[1].v > 0
  /\ dens_log[1].v % Unit # 0

\* C10: the member list of cluster c is the objects labelled c, in increasing
\* index order, each once; a noise object is in no member list; the spatial
\* index holds every object, noise included, at its coordinates.
C10_Membership ==
  /\ \A c \in ClusterIds :
       LET cp == clusters_[c].cluster_points_
       IN  /\ SeqSet(cp) = Members(cluster_ids, c)
           /\ \A a, b \in 1 .. Len(cp) : a < b => cp[a] < cp[b]
  /\ \A o \in Objects :
       cluster_ids[o] = UNCLASSIFIED =>
         \A c \in ClusterIds : o \notin SeqSet(clusters_[c].cluster_points_)
  /\ DOMAIN ann_data_points_ = Objects
  /\ \A o \in Objects : ann_data_points_[o] = points_[o]

\* two interleaved clusters and a noise object
C10_Witness ==
  /\ num_clusters = 2
  /\ \E o \in Objects : cluster_ids[o] = UNCLASSIFIED
  /\ \E a, b, c \in Objects :
       a < b /\ b < c /\ cluster_ids[a] = 0 /\ cluster_ids[b] = 1 /\ cluster_ids[c] = 0

\* the coordinates of the representatives of cluster c, in representative order
RepresentativePoints(c) ==
  [n \in 1 .. Len(clusters_[c].representatives_) |->
     points_[clusters_[c].representatives_[n]]]

\* C11: shrunk_representatives(0) returns, in representative order, exactly the
\* coordinates of the cluster's representative points, for every cluster.
C11_ShrinkZeroIdentity ==
  \A c \in ClusterIds :
    shrunk_representatives(clusters_[c], 0) = RepresentativePoints(c)

\* a cluster with two representatives, one of them away from the centroid
C11_Witness ==
  /\ RanPipeline
  /\ \E c \in ClusterIds :
       /\ Len(clusters_[c].representatives_) >= 2
       /\ \E n \in 1 .. Len(clusters_[c].representatives_) :
            RepresentativePoints(c)[n] # clusters_[c].centroid_

\* what random_subset has to have written when it returns
RsResult ==
  /\ Len(out) = sample_size
  /\ \A a, b \in 1 .. Len(out) : a < b => out[a] < out[b]
  /\ \A a \in 1 .. Len(out) : 0 <= out[a] /\ out[a] < numElements

\* C12: random_subset with sample_size <= numElements terminates whatever values
\* in [0, N) the calls random(N) return, having written exactly sample_size
\* indices, strictly increasing and each in [0, numElements), and without ever
\* calling random(0).
C12_RandomSubset ==
  (rs_pc = "loop" /\ sample_size <= numElements)
    ~> (rs_pc = "done" /\ RsResult /\ ~random_zero)

\* a returned sample of two or more that skipped index 0 and stopped early
C12_Witness ==
  /\ rs_pc = "done"
  /\ sample_size >= 2 /\ sample_size < numElements
  /\ out[1] > 0
  /\ rs_remaining > 0

\* the componentwise mean of the member points of cluster c
MeanOf(c) ==
  LET mem == Members(cluster_ids, c)
  IN  Point(SumOver(mem, [o \in mem |-> points_[o].x]) \div Cardinality(mem),
            SumOver(mem, [o \in mem |-> points_[o].y]) \div Cardinality(mem))

\* the member of cluster c outside `chosen` that is farthest from ref, the
\* earliest in membership order among those equally far
IsFarthestFirst(c, o, ref, chosen) ==
  LET cp     == clusters_[c].cluster_points_
      unused == {j \in 1 .. Len(cp) : cp[j] \notin chosen}
  IN  \E j \in unused :
        /\ cp[j] = o
        /\ \A l \in unused :
             /\ Distance2(ref, points_[cp[l]]) <= Distance2(ref, points_[o])
             /\ Distance2(ref, points_[cp[l]]) = Distance2(ref, points_[o]) => j <= l

\* C13: after choose_representatives(r) with r below the cluster size, pick 1
\* is the unchosen member farthest from the mean of the members and pick n > 1
\* the unchosen member farthest from pick n-1, the earliest in membership order
\* on a tie.
C13_FarthestFirst ==
  (RanPipeline /\ r_ >= 1) =>
    \A c \in ClusterIds :
      r_ < SizeOf(c) =>
        LET reps == clusters_[c].representatives_
        IN  \A n \in 1 .. Len(reps) :
              IsFarthestFirst(c, reps[n],
                              IF n = 1 THEN MeanOf(c) ELSE points_[reps[n - 1]],
                              {reps[k] : k \in 1 .. (n - 1)})

\* the representative of cluster c at minimal distance from p, the earliest in
\* representative order among the closest
ClosestOf(c, p) ==
  LET reps == clusters_[c].representatives_
      k == CHOOSE k \in 1 .. Len(reps) :
             \A l \in 1 .. Len(reps) :
               \/ Distance2(p, points_[reps[k]]) < Distance2(p, points_[reps[l]])
               \/ /\ Distance2(p, points_[reps[k]]) = Distance2(p, points_[reps[l]])
                  /\ k <= l
  IN  reps[k]

\* the pairs of representatives of i and j that are each other's closest
MutualClosest(i, j) ==
  {ab \in SeqSet(clusters_[i].representatives_)
           \X SeqSet(clusters_[j].representatives_) :
     /\ ab[2] = ClosestOf(j, points_[ab[1]])
     /\ ab[1] = ClosestOf(i, points_[ab[2]])}

\* C14: after compute_rcrs(), (a, b) is in RCRs_(i,j), i # j, if and only if a
\* is a representative of i, b is the closest representative of j for a and a
\* the closest representative of i for b (minimal distance, earliest on a tie);
\* every diagonal cell is empty.
C14_RcrIff ==
  RanPipeline =>
    \A i, j \in ClusterIds :
      IF i = j THEN RCRs_[<<i, j>>] = <<>>
      ELSE SeqSet(RCRs_[<<i, j>>]) = MutualClosest(i, j)

\* a run where a representative has two closest representatives in the other
\* cluster, at different places, and the cell holds a pair
C14_Witness ==
  /\ RanPipeline
  /\ \E i, j \in ClusterIds :
       /\ i # j
       /\ RCRs_[<<i, j>>] # <<>>
       /\ \E a \in SeqSet(clusters_[i].representatives_) :
            \E b \in SeqSet(clusters_[j].representatives_) :
              /\ b # ClosestOf(j, points_[a])
              /\ points_[b] # points_[ClosestOf(j, points_[a])]
              /\ Distance2(points_[a], points_[b])
                   = Distance2(points_[a], points_[ClosestOf(j, points_[a])])

\* the place of a step in the order of compute()
StepRank(name) ==
  CASE name = "choose_representatives" -> 1
    [] name = "compute_rcrs" -> 2
    [] name = "compute_separation" -> 3
    [] name = "compactness_and_intra_density_changes" -> 4
    [] name = "compute_cohesion" -> 5

StepNames == {steps[n][1] : n \in 1 .. Len(steps)}

\* the steps taken so far are in order, none twice, none before the one it
\* needs, and every result is the one its step computes from the run so far
StepsInOrder ==
  /\ \A a, b \in 1 .. Len(steps) :
       a < b => /\ StepRank(steps[a][1]) <= StepRank(steps[b][1])
               /\ steps[a] # steps[b]
  /\ "compute_rcrs" \in StepNames =>
       /\ \A c \in ClusterIds : <<"choose_representatives", c>> \in SeqSet(steps)
       /\ RCRs_ = compute_rcrs(clusters_)
  /\ "compute_separation" \in StepNames =>
       /\ "compute_rcrs" \in StepNames
       /\ separation_ = compute_separation(clusters_, RCRs_)
  /\ "compactness_and_intra_density_changes" \in StepNames =>
       /\ "compute_separation" \in StepNames
       /\ intra_cluster_density_change_ =
            compactness_and_intra_density_changes(clusters_, dens_log)
              .intra_cluster_density_change
  /\ "compute_cohesion" \in StepNames =>
       /\ "compactness_and_intra_density_changes" \in StepNames
       /\ cohesion_ = DDiv(compactness_,
                           DAdd(FromInt(1), intra_cluster_density_change_))

\* C15: in every compute(r) run on two clusters or more the steps occur in one
\* fixed order, none revisited: every cluster chooses before any RCR cell is
\* computed, the RCR cells before separation, then compactness, then cohesion,
\* which reads the density change the compactness step of the same run wrote;
\* and the run always reaches the done state.
C15_StepOrder ==
  /\ []StepsInOrder
  /\ (pc # "idle") ~> (pc = "idle" /\ Len(steps) = num_clusters + 4)

\* a second complete run on the same engine
C15_Witness ==
  /\ num_clusters >= 2
  /\ calls = 2
  /\ pc = "idle"
  /\ Len(steps) = num_clusters + 4
  /\ IsFinite(cohesion_)
  /\ cohesion_.v > 0

\* C16: a compute(r) call on a one-cluster partition changes no engine state:
\* cdbw(), separation(), compactness() and cohesion() return what they returned
\* before (0 on a freshly constructed engine), and the stored r, the RCR table
\* and every cluster's representative list are unchanged.
C16_OneClusterFrame ==
  /\ [](calls = 0 => /\ cdbw_ = Zero /\ separation_ = Zero
                     /\ compactness_ = Zero /\ cohesion_ = Zero)
  /\ [][(num_clusters = 1 /\ calls' = calls + 1) =>
         /\ cdbw_' = cdbw_ /\ separation_' = separation_
         /\ compactness_' = compactness_ /\ cohesion_' = cohesion_
         /\ r_' = r_
         /\ RCRs_' = RCRs_
         /\ clusters_' = clusters_]_vars

\* two calls made on a one-cluster engine, the second returning NaN
C16_Witness ==
  /\ num_clusters = 1
  /\ calls = MaxCalls
  /\ ret = NaN
  /\ r_ = UnsetR

\* C17: choose_representatives(r) changes only the representative list: after
\* every compute step each cluster's centroid is still the componentwise mean
\* of its member points, and its stdev and member list are as before.
C17_ChooseKeepsCentroid ==
  [][\A c \in ClusterIds :
       /\ clusters_'[c].centroid_ = MeanOf(c)
       /\ clusters_'[c].stdev_ = clusters_[c].stdev_
       /\ clusters_'[c].cluster_points_ = clusters_[c].cluster_points_]_vars

\* C18: whenever clusters i # j each have a representative, RCRs_(i,j) holds a
\* pair, tied distances included; so in a run with r >= 1 (every cluster being
\* non-empty) every cluster has a representative and distance_between_clusters
\* divides by a non-zero RCR_i_j.size().
C18_RcrNonEmpty ==
  RanPipeline =>
    /\ \A i, j \in ClusterIds :
         (/\ i # j
          /\ clusters_[i].representatives_ # <<>>
          /\ clusters_[j].representatives_ # <<>>)
           => /\ Len(RCRs_[<<i, j>>]) >= 1
              /\ IsFinite(distance_between_clusters(RCRs_, i, j))
    /\ r_ >= 1 => \A c \in ClusterIds : clusters_[c].representatives_ # <<>>

\* two clusters of two representatives each, a tie among the distances, and a
\* cell of one pair only
C18_Witness ==
  /\ RanPipeline
  /\ \E i, j \in ClusterIds :
       /\ i # j
       /\ Len(clusters_[i].representatives_) = 2
       /\ Len(clusters_[j].representatives_) = 2
       /\ Len(RCRs_[<<i, j>>]) = 1
       /\ \E a \in SeqSet(clusters_[i].representatives_) :
            \E b, d \in SeqSet(clusters_[j].representatives_) :
              /\ points_[b] # points_[d]
              /\ Distance2(points_[a], points_[b]) = Distance2(points_[a], points_[d])

\* C19: two inputs with the same labels and the same coordinates of every
\* classified object, differing in the coordinates of a noise object, give the
\* same representatives, RCR tables, separation, compactness, cohesion and
\* score under compute(r).
C19_NoiseIndependent ==
  (prev.r # UnsetR /\ calls = 2) => Results = prev

====
